---- MODULE Spec2Model ----
(***************************************************************************)
(* A model of glados/tts.py: the espeak-ng phoneme bridge (Phonemizer),    *)
(* the phoneme-to-id encoder and the onnx inference wrapper (Synthesizer)  *)
(* and the per-sentence pipeline (TTSEngine).                              *)
(*                                                                         *)
(* A Python str is a sequence of one-character strings.  The native        *)
(* libraries (libc / msvcrt, espeak-ng, onnxruntime) are the environment:  *)
(* whether a native call raises, what phoneme trace espeak emits for the   *)
(* text of a call and what waveform the network produces are chosen with   *)
(* \E from bounded sets.                                                    *)
(***************************************************************************)
EXTENDS Integers, Sequences, FiniteSets, TLC

----------------------------------------------------------------------------
(* Bounds of the model. *)

\* longest phoneme trace / transcription drawn character by character
MaxLen == 3
\* calls of generate_speech_audio each thread makes
MaxCalls == 2

----------------------------------------------------------------------------
(* Constants of tts.py. *)

PAD == "_"
BOS == "^"
EOS == "$"

\* The ASCII keys of PHONEME_ID_MAP (lines 24-77); the IPA keys of lines
\* 78-181 cannot be written in a TLA+ string and no modelled input uses them.
PHONEME_ID_MAP ==
    (" " :> <<3>>) @@ ("!" :> <<4>>) @@ ("\"" :> <<150>>) @@ ("#" :> <<149>>) @@
    ("$" :> <<2>>) @@ ("'" :> <<5>>) @@ ("(" :> <<6>>) @@ (")" :> <<7>>) @@
    ("," :> <<8>>) @@ ("-" :> <<9>>) @@ ("." :> <<10>>) @@
    ("0" :> <<130>>) @@ ("1" :> <<131>>) @@ ("2" :> <<132>>) @@ ("3" :> <<133>>) @@
    ("4" :> <<134>>) @@ ("5" :> <<135>>) @@ ("6" :> <<136>>) @@ ("7" :> <<137>>) @@
    ("8" :> <<138>>) @@ ("9" :> <<139>>) @@
    (":" :> <<11>>) @@ (";" :> <<12>>) @@ ("?" :> <<13>>) @@ ("X" :> <<156>>) @@
    ("^" :> <<1>>) @@ ("_" :> <<0>>) @@
    ("a" :> <<14>>) @@ ("b" :> <<15>>) @@ ("c" :> <<16>>) @@ ("d" :> <<17>>) @@
    ("e" :> <<18>>) @@ ("f" :> <<19>>) @@ ("g" :> <<154>>) @@ ("h" :> <<20>>) @@
    ("i" :> <<21>>) @@ ("j" :> <<22>>) @@ ("k" :> <<23>>) @@ ("l" :> <<24>>) @@
    ("m" :> <<25>>) @@ ("n" :> <<26>>) @@ ("o" :> <<27>>) @@ ("p" :> <<28>>) @@
    ("q" :> <<29>>) @@ ("r" :> <<30>>) @@ ("s" :> <<31>>) @@ ("t" :> <<32>>) @@
    ("u" :> <<33>>) @@ ("v" :> <<34>>) @@ ("w" :> <<35>>) @@ ("x" :> <<36>>) @@
    ("y" :> <<37>>) @@ ("z" :> <<38>>)

\* size of the buffer the Windows branch reads the temp file into (line 358)
FreadBufSize == 10000

----------------------------------------------------------------------------
(* Python string operations.  The phoneme text of one call can be longer   *)
(* than FreadBufSize characters, so the operators that walk a whole string *)
(* split it in halves instead of recursing once per character.             *)

\* characters str.strip() removes
Whitespace == {" ", "\n", "\r", "\t", "\f"}
\* line boundaries of str.splitlines()
LineBreaks == {"\n", "\r", "\f"}

\* the characters s[i], lo <= i <= hi, with keep[i], in order
RECURSIVE KeepChars(_, _, _, _)
KeepChars(s, keep, lo, hi) ==
    IF lo > hi THEN <<>>
    ELSE IF lo = hi THEN (IF keep[lo] THEN <<s[lo]>> ELSE <<>>)
    ELSE LET mid == (lo + hi) \div 2
         IN  KeepChars(s, keep, lo, mid) \o KeepChars(s, keep, mid + 1, hi)

RECURSIVE FirstNonWs(_, _)
FirstNonWs(s, i) ==
    IF i > Len(s) \/ s[i] \notin Whitespace THEN i ELSE FirstNonWs(s, i + 1)

RECURSIVE LastNonWs(_, _)
LastNonWs(s, i) ==
    IF i < 1 \/ s[i] \notin Whitespace THEN i ELSE LastNonWs(s, i - 1)

\* str.strip()
Strip(s) == SubSeq(s, FirstNonWs(s, 1), LastNonWs(s, Len(s)))

\* ReplaceNewlines with the newlines left in place
ReplaceNewlinesKept(s) == s

\* str.replace("\n", ".")
ReplaceNewlines(s) ==
    IF s = <<>> THEN <<>>
    ELSE [i \in 1..Len(s) |-> IF s[i] = "\n" THEN "." ELSE s[i]]

\* s[i] is a space at an odd offset (0-based) inside its run of spaces
RECURSIVE OddSpace(_, _)
OddSpace(s, i) ==
    /\ s[i] = " "
    /\ i > 1
    /\ s[i - 1] = " "
    /\ ~OddSpace(s, i - 1)

\* str.replace("  ", " "): matches are taken left to right without overlap,
\* so of every run of spaces the 2nd, 4th, ... are dropped
CollapseDoubleSpaces(s) ==
    KeepChars(s, [i \in 1..Len(s) |-> ~OddSpace(s, i)], 1, Len(s))

\* re.sub(r"_+", "_", s)
CollapseUnderscores(s) ==
    KeepChars(s, [i \in 1..Len(s) |-> ~(s[i] = "_" /\ i > 1 /\ s[i - 1] = "_")],
              1, Len(s))

\* re.sub(r"_ ", " ", s)
DropUnderscoreBeforeSpace(s) ==
    KeepChars(s, [i \in 1..Len(s) |-> ~(s[i] = "_" /\ i < Len(s) /\ s[i + 1] = " ")],
              1, Len(s))

\* the first line boundary of s at or after position from, Len(s) + 1 if none
NextBreak(s, from) ==
    LET brk == {i \in from..Len(s) : s[i] \in LineBreaks}
    IN  IF brk = {} THEN Len(s) + 1
        ELSE CHOOSE i \in brk : \A j \in brk : i <= j

RECURSIVE SplitFrom(_, _)
SplitFrom(s, from) ==
    IF from > Len(s) THEN <<>>
    ELSE LET e == NextBreak(s, from)
             crlf == e < Len(s) /\ s[e] = "\r" /\ s[e + 1] = "\n"
         IN  <<SubSeq(s, from, e - 1)>> \o SplitFrom(s, IF crlf THEN e + 2 ELSE e + 1)

\* str.split("\n") in the place of splitlines: it yields [""] for ""
SplitOnNewline(s) == IF s = <<>> THEN << <<>> >> ELSE SplitFrom(s, 1)

\* str.splitlines(): "\r\n" is one boundary, a final boundary opens no line
SplitLines(s) == SplitFrom(s, 1)

\* lines 368-372 of synthesize_phonemes
PostProcess(phonemes) ==
    SplitLines(DropUnderscoreBeforeSpace(CollapseUnderscores(
        CollapseDoubleSpaces(ReplaceNewlines(Strip(phonemes))))))

----------------------------------------------------------------------------
(* Synthesizer._phonemes_to_ids *)

\* the loop of lines 435-440 over phonemes[lo..hi]
RECURSIVE ExtendIds(_, _, _)
ExtendIds(phonemes, lo, hi) ==
    IF lo > hi THEN <<>>
    ELSE IF lo = hi
         THEN (IF phonemes[lo] \notin DOMAIN PHONEME_ID_MAP THEN <<>>
               ELSE PHONEME_ID_MAP[phonemes[lo]] \o PHONEME_ID_MAP[PAD])
    ELSE LET mid == (lo + hi) \div 2
         IN  ExtendIds(phonemes, lo, mid) \o ExtendIds(phonemes, mid + 1, hi)

\* the loop without line 440: no padding id after a symbol
RECURSIVE ExtendIdsNoPad(_, _, _)
ExtendIdsNoPad(phonemes, lo, hi) ==
    IF lo > hi THEN <<>>
    ELSE IF lo = hi
         THEN (IF phonemes[lo] \notin DOMAIN PHONEME_ID_MAP THEN <<>>
               ELSE PHONEME_ID_MAP[phonemes[lo]])
    ELSE LET mid == (lo + hi) \div 2
         IN  ExtendIdsNoPad(phonemes, lo, mid) \o ExtendIdsNoPad(phonemes, mid + 1, hi)

\* _phonemes_to_ids without line 440
PhonemesToIdsNoPad(phonemes) ==
    PHONEME_ID_MAP[BOS] \o ExtendIdsNoPad(phonemes, 1, Len(phonemes))
        \o PHONEME_ID_MAP[EOS]

\* _phonemes_to_ids without line 441
PhonemesToIdsNoEos(phonemes) ==
    PHONEME_ID_MAP[BOS] \o ExtendIds(phonemes, 1, Len(phonemes))

PhonemesToIds(phonemes) ==
    PHONEME_ID_MAP[BOS] \o ExtendIds(phonemes, 1, Len(phonemes))
        \o PHONEME_ID_MAP[EOS]

----------------------------------------------------------------------------
(* TTSEngine.generate_speech_audio: the assembly of the chunks.  A chunk   *)
(* is what _synthesize_ids_to_raw returns, a 1 x T matrix (the network's   *)
(* first output with its two leading axes squeezed away).                  *)

RECURSIVE ConcatenateReversed(_)
\* the chunks joined last to first
ConcatenateReversed(chunks) ==
    IF chunks = <<>> THEN << <<>> >>
    ELSE << ConcatenateReversed(Tail(chunks))[1] \o Head(chunks)[1] >>

RECURSIVE Concatenate(_)
\* np.concatenate(audio, axis=1) of 1 x T chunks
Concatenate(chunks) ==
    IF chunks = <<>> THEN << <<>> >>
    ELSE << Head(chunks)[1] \o Concatenate(Tail(chunks))[1] >>

\* ndarray.T of a matrix with one row at least
Transpose(m) ==
    IF m[1] = <<>> THEN <<>>
    ELSE [j \in 1..Len(m[1]) |-> [i \in 1..Len(m) |-> m[i][j]]]

\* lines 496-498
GenerateResult(audio) ==
    IF audio # <<>> THEN Transpose(Concatenate(audio)) ELSE audio

----------------------------------------------------------------------------
(* Phonemizer: construction and the read of the output channel. *)

Platforms == {"linux", "win32", "darwin"}

\* what espeak_SetVoiceByName can return: EE_OK is 0, the others are not
VoiceResults == {"EE_OK", "EE_NOT_FOUND"}

\* Phonemizer.__init__: crtOk says that libc.so.6 (msvcrt.dll on win32)
\* loads, espeakOk that ctypes.CDLL finds the espeak-ng library
PhonemizerInit(plat, crtOk, espeakOk, voiceRc) ==
    IF ~crtOk THEN [ok |-> FALSE, libc |-> FALSE, voice |-> "uncalled"]
    ELSE IF ~(plat \in {"linux", "win32"} /\ espeakOk)
         THEN [ok |-> FALSE, libc |-> plat # "win32", voice |-> "uncalled"]
    ELSE [ok |-> TRUE, libc |-> plat # "win32", voice |-> voiceRc]

\* lines 345-360: the text read back from a channel that holds data
ReadBack(isLibc, data) ==
    IF isLibc THEN data
    ELSE SubSeq(data, 1, IF Len(data) < FreadBufSize THEN Len(data) ELSE FreadBufSize)

----------------------------------------------------------------------------
(* The state. *)

Threads == {1, 2}
\* the thread of the reference (single-threaded) use
Main == 1

VARIABLES
    platform,     \* sys.platform
    engine,       \* TTSEngine(): "unconstructed", "ready" or "failed"
    libc,         \* self.libc is set (the memory-stream variant)
    voice,        \* what espeak_SetVoiceByName returned to __init__
    chanData,     \* per output channel ever opened, the text it holds
    chanOpen,     \* the channels not closed yet
    traceTarget,  \* espeak's phoneme trace FILE* (one per process), 0: unset
    crashed,      \* the process died
    pc,           \* per thread, where its generate_speech_audio call stands
    calls,        \* per thread, the calls started
    trace,        \* per thread, the phoneme trace espeak emits for the text
    chan,         \* per thread, phonemes_file of the current call
    failure,      \* per thread, the native call that raised in this call
    readback,     \* per thread, phonemes as read back (line 351 / 360)
    phonemes,     \* per thread, what synthesize_phonemes returned
    idx,          \* per thread, the sentence the for loop is at
    infer,        \* per thread, the session.run calls of the current call
    audio,        \* per thread, the list audio
    result,       \* per thread, what generate_speech_audio returned
    encIn,        \* argument of a direct _phonemes_to_ids call
    encOut,       \* its result
    encPc         \* "call" before, "returned" after

engineVars == <<platform, engine, libc, voice>>
nativeVars == <<chanData, chanOpen, traceTarget, crashed>>
callVars == <<pc, calls, trace, chan, failure, readback, phonemes, idx, infer,
              audio, result>>
encVars == <<encIn, encOut, encPc>>
vars == <<engineVars, nativeVars, callVars, encVars>>

\* the value of phonemes before synthesize_phonemes has returned, and None
NoReturn == [none |-> FALSE, val |-> <<>>]
None == [none |-> TRUE, val |-> <<>>]

RECURSIVE SeqsUpTo(_, _)
\* the sequences over alphabet of length n at most
SeqsUpTo(alphabet, n) ==
    IF n = 0 THEN {<<>>}
    ELSE LET shorter == SeqsUpTo(alphabet, n - 1)
         IN  shorter \cup {Append(s, c) : s \in shorter, c \in alphabet}

\* characters of the modelled espeak output: a phoneme, a space, the
\* underscore, the two line ends and a character PHONEME_ID_MAP lacks
TraceAlphabet == {"a", " ", "_", "\n", "\r", "~"}

\* a trace longer than the Windows read buffer
LongTrace == [i \in 1..(FreadBufSize + 1) |-> "a"]

Traces == SeqsUpTo(TraceAlphabet, MaxLen) \cup {LongTrace}

\* the traces of the two-thread specification
ConcTraces == {<<"a">>, <<"_", "\n">>}

\* 1 x T outputs of the network; the values only tell the samples apart
Waveforms == { << <<1>> >>, << <<2, 3>> >> }

\* transcriptions given to _phonemes_to_ids directly
EncAlphabet == {"a", " ", "_", "^", "$", "~", "\n"}
Transcriptions == SeqsUpTo(EncAlphabet, MaxLen)

InitCommon ==
    /\ engine = "unconstructed"
    /\ libc = FALSE
    /\ voice = "uncalled"
    /\ chanData = <<>>
    /\ chanOpen = {}
    /\ traceTarget = 0
    /\ crashed = FALSE
    /\ pc = [t \in Threads |-> "idle"]
    /\ calls = [t \in Threads |-> 0]
    /\ trace = [t \in Threads |-> <<>>]
    /\ chan = [t \in Threads |-> 0]
    /\ failure = [t \in Threads |-> "none"]
    /\ readback = [t \in Threads |-> <<>>]
    /\ phonemes = [t \in Threads |-> NoReturn]
    /\ idx = [t \in Threads |-> 1]
    /\ infer = [t \in Threads |-> <<>>]
    /\ audio = [t \in Threads |-> <<>>]
    /\ result = [t \in Threads |-> <<>>]

Init ==
    /\ platform \in Platforms
    /\ InitCommon
    /\ encIn = <<>>
    /\ encOut = <<>>
    /\ encPc = "returned"

----------------------------------------------------------------------------
(* The operations. *)

\* TTSEngine.__init__: Phonemizer(espeakng_path), then Synthesizer(...),
\* whose InferenceSession loads the model file (modelOk)
Construct ==
    /\ engine = "unconstructed"
    /\ \E crtOk \in BOOLEAN, espeakOk \in BOOLEAN, voiceRc \in VoiceResults,
          modelOk \in BOOLEAN :
          LET p == PhonemizerInit(platform, crtOk, espeakOk, voiceRc)
          IN  /\ engine' = IF p.ok /\ modelOk THEN "ready" ELSE "failed"
              /\ libc' = p.libc
              /\ voice' = p.voice
    /\ UNCHANGED <<platform, nativeVars, callVars, encVars>>

\* generate_speech_audio(text) is called and synthesize_phonemes opens its
\* output channel (lines 310-317); what espeak will emit for text is one of
\* traces
OpenChannel(t, traces) ==
    /\ ~crashed
    /\ engine = "ready"
    /\ pc[t] = "idle"
    /\ calls[t] < MaxCalls
    /\ calls' = [calls EXCEPT ![t] = @ + 1]
    /\ \E tr \in traces : trace' = [trace EXCEPT ![t] = tr]
    /\ chanData' = Append(chanData, <<>>)
    /\ chanOpen' = chanOpen \cup {Len(chanData) + 1}
    /\ chan' = [chan EXCEPT ![t] = Len(chanData) + 1]
    /\ pc' = [pc EXCEPT ![t] = "initialize"]
    /\ UNCHANGED <<engineVars, traceTarget, crashed, failure, readback, phonemes,
                   idx, infer, audio, result, encVars>>

\* line 319, the call returns
EspeakInitialize(t) ==
    /\ ~crashed
    /\ pc[t] = "initialize"
    /\ pc' = [pc EXCEPT ![t] = "settrace"]
    /\ UNCHANGED <<engineVars, nativeVars, calls, trace, chan, failure, readback,
                   phonemes, idx, infer, audio, result, encVars>>

\* line 319, the call raises: it stands before the try statement, so the
\* exception leaves synthesize_phonemes and generate_speech_audio
InitializeRaises(t) ==
    /\ ~crashed
    /\ pc[t] = "initialize"
    /\ failure' = [failure EXCEPT ![t] = "espeak_Initialize"]
    /\ pc' = [pc EXCEPT ![t] = "raised"]
    /\ UNCHANGED <<engineVars, nativeVars, calls, trace, chan, readback,
                   phonemes, idx, infer, audio, result, encVars>>

\* line 328
SetPhonemeTrace(t) ==
    /\ ~crashed
    /\ pc[t] = "settrace"
    /\ traceTarget' = chan[t]
    /\ pc' = [pc EXCEPT ![t] = "synth"]
    /\ UNCHANGED <<engineVars, chanData, chanOpen, crashed, calls, trace, chan,
                   failure, readback, phonemes, idx, infer, audio, result, encVars>>

\* What espeak_Synth's write of the trace can do.  A trace target that was
\* closed is a dangling FILE*: the write is lost, the process dies, or the
\* write lands in a stream opened since.
SynthOutcomes ==
    IF traceTarget \in chanOpen
    THEN {[kind |-> "write", to |-> traceTarget]}
    ELSE {[kind |-> "lost", to |-> 0], [kind |-> "crash", to |-> 0]}
         \cup {[kind |-> "write", to |-> c] : c \in chanOpen}

\* lines 333-342
EspeakSynth(t) ==
    /\ ~crashed
    /\ pc[t] = "synth"
    /\ \E out \in SynthOutcomes :
          /\ chanData' = IF out.kind = "write"
                         THEN [chanData EXCEPT ![out.to] = @ \o trace[t]]
                         ELSE chanData
          /\ crashed' = (out.kind = "crash")
    /\ pc' = [pc EXCEPT ![t] = "retrieve"]
    /\ UNCHANGED <<engineVars, chanOpen, traceTarget, calls, trace, chan, failure,
                   readback, phonemes, idx, infer, audio, result, encVars>>

\* lines 344-372 and the finally clause: flush, read back, post-process,
\* return the list; the channel is closed and its text is gone
Retrieve(t) ==
    /\ ~crashed
    /\ pc[t] = "retrieve"
    /\ LET text == ReadBack(libc, chanData[chan[t]])
       IN  /\ readback' = [readback EXCEPT ![t] = text]
           /\ phonemes' = [phonemes EXCEPT ![t] =
                               [none |-> FALSE, val |-> PostProcess(text)]]
    /\ chanOpen' = chanOpen \ {chan[t]}
    /\ chanData' = [chanData EXCEPT ![chan[t]] = <<>>]
    /\ pc' = [pc EXCEPT ![t] = "loop"]
    /\ UNCHANGED <<engineVars, traceTarget, crashed, calls, trace, chan, failure,
                   idx, infer, audio, result, encVars>>

\* a native call of the try block (espeak_SetPhonemeTrace, espeak_Synth,
\* fflush / fseek / fread, or the decode) raises: lines 373-380 print the
\* error and close the channel, and the function ends without a return
\* statement, that is, it returns None
NativeFailure(t) ==
    /\ ~crashed
    /\ pc[t] \in {"settrace", "synth", "retrieve"}
    /\ failure' = [failure EXCEPT ![t] = pc[t]]
    /\ phonemes' = [phonemes EXCEPT ![t] = None]
    /\ chanOpen' = chanOpen \ {chan[t]}
    /\ chanData' = [chanData EXCEPT ![chan[t]] = <<>>]
    /\ pc' = [pc EXCEPT ![t] = "loop"]
    /\ UNCHANGED <<engineVars, traceTarget, crashed, calls, trace, chan, readback,
                   idx, infer, audio, result, encVars>>

\* line 493 when phonemes is None: TypeError
IterateNone(t) ==
    /\ ~crashed
    /\ pc[t] = "loop"
    /\ phonemes[t].none
    /\ pc' = [pc EXCEPT ![t] = "raised"]
    /\ UNCHANGED <<engineVars, nativeVars, calls, trace, chan, failure, readback,
                   phonemes, idx, infer, audio, result, encVars>>

\* lines 494-495 for one sentence: say_phonemes encodes it and runs the
\* network once; w is the chunk the network returns
SayPhonemes(t) ==
    /\ ~crashed
    /\ pc[t] = "loop"
    /\ ~phonemes[t].none
    /\ idx[t] <= Len(phonemes[t].val)
    /\ \E w \in Waveforms :
          /\ infer' = [infer EXCEPT ![t] =
                           Append(@, [ids |-> PhonemesToIds(phonemes[t].val[idx[t]]),
                                      wave |-> w])]
          /\ audio' = [audio EXCEPT ![t] = Append(@, w)]
    /\ idx' = [idx EXCEPT ![t] = @ + 1]
    /\ UNCHANGED <<engineVars, nativeVars, pc, calls, trace, chan, failure,
                   readback, phonemes, result, encVars>>

\* session.run raises: nothing catches it
InferenceRaises(t) ==
    /\ ~crashed
    /\ pc[t] = "loop"
    /\ ~phonemes[t].none
    /\ idx[t] <= Len(phonemes[t].val)
    /\ infer' = [infer EXCEPT ![t] =
                     Append(@, [ids |-> PhonemesToIds(phonemes[t].val[idx[t]]),
                                wave |-> << <<>> >>])]
    /\ pc' = [pc EXCEPT ![t] = "raised"]
    /\ UNCHANGED <<engineVars, nativeVars, calls, trace, chan, failure, readback,
                   phonemes, idx, audio, result, encVars>>

\* lines 496-498 once the loop has ended
Finish(t) ==
    /\ ~crashed
    /\ pc[t] = "loop"
    /\ ~phonemes[t].none
    /\ idx[t] > Len(phonemes[t].val)
    /\ result' = [result EXCEPT ![t] = GenerateResult(audio[t])]
    /\ pc' = [pc EXCEPT ![t] = "done"]
    /\ UNCHANGED <<engineVars, nativeVars, calls, trace, chan, failure, readback,
                   phonemes, idx, infer, audio, encVars>>

\* the caller has the value or the exception of generate_speech_audio: the
\* call's frame and everything it held are gone
Return(t) ==
    /\ ~crashed
    /\ pc[t] \in {"done", "raised"}
    /\ trace' = [trace EXCEPT ![t] = <<>>]
    /\ chan' = [chan EXCEPT ![t] = 0]
    /\ failure' = [failure EXCEPT ![t] = "none"]
    /\ readback' = [readback EXCEPT ![t] = <<>>]
    /\ phonemes' = [phonemes EXCEPT ![t] = NoReturn]
    /\ idx' = [idx EXCEPT ![t] = 1]
    /\ infer' = [infer EXCEPT ![t] = <<>>]
    /\ audio' = [audio EXCEPT ![t] = <<>>]
    /\ result' = [result EXCEPT ![t] = <<>>]
    /\ pc' = [pc EXCEPT ![t] = "idle"]
    /\ UNCHANGED <<engineVars, nativeVars, calls, encVars>>

\* one step of thread t whose texts have their traces in traces
Step(t, traces) ==
    \/ OpenChannel(t, traces)
    \/ EspeakInitialize(t)
    \/ InitializeRaises(t)
    \/ SetPhonemeTrace(t)
    \/ EspeakSynth(t)
    \/ Retrieve(t)
    \/ NativeFailure(t)
    \/ IterateNone(t)
    \/ SayPhonemes(t)
    \/ InferenceRaises(t)
    \/ Finish(t)
    \/ Return(t)

\* the reference use: one thread
Next == Construct \/ Step(Main, Traces)

Spec == Init /\ [][Next]_vars

\* two threads share the TTSEngine
NextMT == Construct \/ \E t \in Threads : Step(t, ConcTraces)

SpecMT == Init /\ [][NextMT]_vars

\* _phonemes_to_ids applied to a transcription
Encode ==
    /\ encPc = "call"
    /\ encOut' = PhonemesToIds(encIn)
    /\ encPc' = "returned"
    /\ UNCHANGED <<engineVars, nativeVars, callVars, encIn>>

InitEnc ==
    /\ platform = "linux"
    /\ InitCommon
    /\ encIn \in Transcriptions
    /\ encOut = <<>>
    /\ encPc = "call"

NextEnc == Encode

SpecEnc == InitEnc /\ [][NextEnc]_vars

----------------------------------------------------------------------------
(* Properties. *)

InVocabulary(c) == c \in DOMAIN PHONEME_ID_MAP

\* synthesize_phonemes of thread t's current call has returned a list
Returned(t) == pc[t] \in {"loop", "done"} /\ ~phonemes[t].none

\* C1: _phonemes_to_ids returns the BOS ids, then for every character of
\* the transcription that is a key of the table its id followed by the PAD
\* id 0, in order, and for every other character nothing, then the EOS ids;
\* one supported symbol s gives BOS + ids(s) + PAD + EOS, and unrecognized
\* characters alone give BOS + EOS.
C1_EncodingExact ==
    encPc = "returned" =>
        LET known == SelectSeq(encIn, InVocabulary)
        IN  /\ Len(encOut) = 2 * Len(known) + 2
            /\ encOut[1] = 1
            /\ encOut[Len(encOut)] = 2
            /\ \A k \in 1..Len(known) :
                  /\ <<encOut[2 * k]>> = PHONEME_ID_MAP[known[k]]
                  /\ encOut[2 * k + 1] = 0
            /\ (Len(encIn) = 1 /\ InVocabulary(encIn[1]) =>
                  encOut = PHONEME_ID_MAP[BOS] \o PHONEME_ID_MAP[encIn[1]]
                             \o PHONEME_ID_MAP[PAD] \o PHONEME_ID_MAP[EOS])
            /\ (known = <<>> => encOut = PHONEME_ID_MAP[BOS] \o PHONEME_ID_MAP[EOS])

\* a known symbol, an unknown one and the PAD symbol have been encoded
C1_Witness ==
    /\ encPc = "returned"
    /\ encIn = <<"a", "~", "_">>
    /\ encOut = <<1, 14, 0, 0, 0, 2>>

\* C7: whatever the transcription, also one that contains '^', '$' or '_',
\* the ids begin with the BOS ids [1], end with the EOS ids [2] and are two
\* at least.
C7_BosEosFrame ==
    encPc = "returned" =>
        /\ Len(encOut) >= 2
        /\ SubSeq(encOut, 1, 1) = PHONEME_ID_MAP[BOS]
        /\ SubSeq(encOut, Len(encOut), Len(encOut)) = PHONEME_ID_MAP[EOS]
        /\ PHONEME_ID_MAP[BOS] = <<1>>
        /\ PHONEME_ID_MAP[EOS] = <<2>>

\* a transcription made of the three sentinel characters has been encoded
C7_Witness ==
    /\ encPc = "returned"
    /\ encIn = <<"$", "_", "^">>
    /\ Len(encOut) = 8

RECURSIVE SamplesBefore(_, _)
\* the samples of the chunks the first i - 1 session.run calls returned
SamplesBefore(log, i) ==
    IF i <= 1 THEN 0
    ELSE SamplesBefore(log, i - 1) + Len(log[i - 1].wave[1])

\* C2: with n >= 1 sentences, sentence i is encoded and synthesized, by one
\* session.run call, before sentence i + 1, and the returned waveform is the
\* chunks in sentence order with nothing between them: its sample count is
\* the sum of theirs.
C2_SentencesInOrder ==
    \A t \in Threads :
        Returned(t) /\ Len(phonemes[t].val) >= 1 =>
            LET val == phonemes[t].val
                log == infer[t]
            IN  /\ Len(log) = idx[t] - 1
                /\ Len(audio[t]) = Len(log)
                /\ \A i \in 1..Len(log) :
                      /\ log[i].ids = PhonemesToIds(val[i])
                      /\ audio[t][i] = log[i].wave
                /\ pc[t] = "done" =>
                      /\ Len(log) = Len(val)
                      /\ Len(result[t]) = SamplesBefore(log, Len(log) + 1)
                      /\ \A i \in 1..Len(log) :
                            \A j \in 1..Len(log[i].wave[1]) :
                                result[t][SamplesBefore(log, i) + j]
                                    = <<log[i].wave[1][j]>>

\* two sentences were synthesized into chunks of 2 and 1 samples
C2_Witness ==
    /\ pc[Main] = "done"
    /\ phonemes[Main].val = << <<"a">>, <<"_">> >>
    /\ Len(infer[Main]) = 2
    /\ result[Main] = << <<2>>, <<3>>, <<1>> >>

\* the sentences of a trace: its lines
TraceSentences(tr) == SplitLines(tr)

\* C3 as stated: a trace of k >= 1 sentences gives k entries.
C3_OneEntryPerSentence ==
    \A t \in Threads :
        LET sentences == TraceSentences(trace[t])
        IN  (/\ Returned(t)
             /\ Len(sentences) >= 1
             /\ \A i \in 1..Len(sentences) : Strip(sentences[i]) # <<>>)
            => Len(phonemes[t].val) = Len(sentences)

\* C3 as amended: the sentences of the text read back that "\n" separates
\* are joined, a '.' for each "\n", into one entry: when that text is not
\* blank and has no line boundary but "\n", one entry is returned.
C3_NewlinesJoined ==
    \A t \in Threads :
        (/\ Returned(t)
         /\ Strip(readback[t]) # <<>>
         /\ \A i \in 1..Len(readback[t]) : readback[t][i] \notin LineBreaks \ {"\n"})
        => /\ Len(phonemes[t].val) = 1
           /\ \A i \in 1..Len(phonemes[t].val[1]) : phonemes[t].val[1][i] # "\n"

\* a trace of two sentences came back as one entry
C3_Witness ==
    /\ Returned(Main)
    /\ readback[Main] = <<"a", "\n", "a">>
    /\ phonemes[Main].val = << <<"a", ".", "a">> >>

\* C4: once synthesize_phonemes has returned or raised, the channel the call
\* opened is closed; with no call in progress no channel is open.
C4_ChannelReleased ==
    /\ \A t \in Threads :
          pc[t] \in {"loop", "done", "raised"} => chan[t] \notin chanOpen
    /\ (\A t \in Threads : pc[t] = "idle") => chanOpen = {}

\* C5: a native call of the try block that raises makes synthesize_phonemes
\* return a list (not None, no exception) and generate_speech_audio end
\* without raising.
C5_FailureDegrades ==
    \A t \in Threads :
        failure[t] \in {"settrace", "synth", "retrieve"} =>
            /\ pc[t] # "raised"
            /\ ~phonemes[t].none

\* C6: a call whose extractor yields no sentence, as for the empty text,
\* makes no session.run call and returns an empty waveform; session.run
\* never gets an empty id sequence.
C6_EmptyNoInference ==
    \A t \in Threads :
        /\ (Returned(t) /\ trace[t] = <<>>) => phonemes[t].val = <<>>
        /\ (Returned(t) /\ phonemes[t].val = <<>>) =>
              /\ infer[t] = <<>>
              /\ audio[t] = <<>>
              /\ pc[t] = "done" => result[t] = <<>>
        /\ \A i \in 1..Len(infer[t]) : infer[t][i].ids # <<>>

\* the call for the empty text has returned
C6_Witness ==
    /\ pc[Main] = "done"
    /\ failure[Main] = "none"
    /\ trace[Main] = <<>>
    /\ phonemes[Main].val = <<>>
    /\ result[Main] = <<>>

\* C8: while a call is between espeak_SetPhonemeTrace and espeak_Synth the
\* engine's trace target is the open channel of that call, and after
\* espeak_Synth the channel of a call holds the trace of its own text.
C8_ChannelNotShared ==
    \A t \in Threads :
        /\ pc[t] = "synth" => traceTarget = chan[t] /\ traceTarget \in chanOpen
        /\ pc[t] = "retrieve" => chanData[chan[t]] = trace[t]

\* C9: no TTSEngine is constructed unless the voice was set.
C9_ConstructionFails ==
    engine = "ready" => voice = "EE_OK"

\* C10: the text that is post-processed is all of what the engine wrote for
\* the call.
C10_FullReadBack ==
    \A t \in Threads : Returned(t) => readback[t] = trace[t]

====
